---- MODULE Spec2Model ----
(***************************************************************************)
(* Model of the departure board "puenktli": the connection buffer          *)
(* (ConnectionService), the transit lookup (SwissTransportClient), the     *)
(* configuration chain (ConfigurationService) and the two loops of the    *)
(* terminal UI (BackgroundUpdater, TUIApplication).                        *)
(*                                                                         *)
(* Conventions.  An Optional[X] is a sequence of length at most one:      *)
(* <<>> is None and <<x>> is x.  A Python str is a sequence of tokens, so  *)
(* "" is <<>> and concatenation is \o.  A call that may raise returns a    *)
(* record [exc, val]: exc is "" when the call returned val, and the name   *)
(* of the exception class otherwise.                                       *)
(***************************************************************************)
EXTENDS Integers, Sequences, FiniteSets, TLC

VARIABLES
    buffer,            \* ConnectionService._buffer
    current_location,  \* ConnectionService.current_location (Optional)
    pc,                \* position of the coroutine "main" and of the task "task"
    before,            \* buffer and current_location at entry of the running update_buffer
    exc,               \* what the running update_buffer caught: step and exception
    new_connections,   \* the local new_connections of update_buffer (Optional)
    located,           \* what get_current_location returned to the running update_buffer
    station,           \* the local station of get_connections (Optional)
    loc_data,          \* the stations of the locations response (Optional)
    last_lookup,       \* what the last get_connections that returned, returned (Optional)
    shown,             \* what the last DisplayUpdater.update read and got from the service
    stationboard,      \* input of the parsing specification
    parsed,            \* its output (Optional)
    call,              \* arguments of the last get_displayable_connections (Optional)
    config,            \* input of the configuration specification
    loaded             \* its output (Optional)

vars == <<buffer, current_location, pc, before, exc, new_connections, located,
          station, loc_data, last_lookup, shown, stationboard, parsed, call, config,
          loaded>>

----------------------------------------------------------------------------
(* Bounds of the model *)

\* the longest stationboard a lookup response carries
MaxBoard == 2
\* the longest buffer the display specification draws
MaxBuf == 3
\* the last UTC instant the wall clock is read at
MaxTime == 3
\* the largest display limit passed to get_displayable_connections
MaxLimit == 2
\* the UTC offset of the local timezone
LocalOffset == 1
\* the longest stationboard the parsing specification draws
MaxEntries == 2

----------------------------------------------------------------------------
(* Values *)

None == <<>>
Some(x) == <<x>>

Returned(v) == [exc |-> "", val |-> Some(v)]
Raised(e) == [exc |-> e, val |-> None]

\* str.strip() on a token sequence: leading and trailing blanks go
RECURSIVE lstrip(_)
lstrip(s) == IF s # <<>> /\ Head(s) = " " THEN lstrip(Tail(s)) ELSE s

RECURSIVE rstrip(_)
rstrip(s) ==
    IF s # <<>> /\ s[Len(s)] = " " THEN rstrip(SubSeq(s, 1, Len(s) - 1)) ELSE s

strip(s) == rstrip(lstrip(s))

----------------------------------------------------------------------------
(* datetime: wall is the local reading, utcoffset is None for a naive value *)

datetime(wall, utcoffset) == [wall |-> wall, utcoffset |-> utcoffset]

IsAware(dt) == dt.utcoffset # None

\* the UTC instant of an aware datetime
Instant(dt) == dt.wall - dt.utcoffset[1]

\* datetime.__gt__: a naive and an aware operand cannot be ordered
datetime_gt(a, b) ==
    IF IsAware(a) # IsAware(b) THEN Raised("TypeError")
    ELSE IF IsAware(a) THEN Returned(Instant(a) > Instant(b))
    ELSE Returned(a.wall > b.wall)

\* datetime.__lt__, which list.sort uses on the keys
datetime_lt(a, b) == datetime_gt(b, a)

\* datetime.now().astimezone(): the aware local time at UTC instant t
now_astimezone(t) == datetime(t + LocalOffset, Some(LocalOffset))

\* The text of a timestamp: "" (empty), a text that is no ISO 8601 time, or
\* an ISO 8601 time with or without a UTC offset.
EmptyText == [form |-> "empty", wall |-> 0, utcoffset |-> None]
GarbageText == [form |-> "garbage", wall |-> 0, utcoffset |-> None]
IsoText(wall, utcoffset) == [form |-> "iso", wall |-> wall, utcoffset |-> utcoffset]

\* datetime.fromisoformat
fromisoformat(text) ==
    IF text.form = "iso" THEN Returned(datetime(text.wall, text.utcoffset))
    ELSE Raised("ValueError")

----------------------------------------------------------------------------
(* Stationboard entries, as the JSON of the departure-board endpoint.  A   *)
(* key of a JSON object is missing, null or has a value.                   *)

Missing == [kind |-> "missing", text |-> EmptyText]
Null == [kind |-> "null", text |-> EmptyText]
Str(text) == [kind |-> "str", text |-> text]

NoStop == [kind |-> "missing", departure |-> Missing]
NullStop == [kind |-> "null", departure |-> Missing]
Stop(departure) == [kind |-> "obj", departure |-> departure]

Entry(stop, to, category, number) ==
    [stop |-> stop, to |-> to, category |-> category, number |-> number]

Zurich == [kind |-> "str", text |-> <<"Zurich">>]
NoTo == [kind |-> "missing", text |-> <<>>]
NullTo == [kind |-> "null", text |-> <<>>]

\* entries that carry a destination and an ISO 8601 departure
GoodEntries ==
    { Entry(Stop(Str(IsoText(1, Some(0)))), Zurich, <<"IR">>, <<"15">>),
      Entry(Stop(Str(IsoText(1, Some(0)))), Zurich, <<"S">>, <<>>),
      Entry(Stop(Str(IsoText(4, Some(2)))), Zurich, <<"IR">>, <<"15">>),
      Entry(Stop(Str(IsoText(3, Some(0)))), Zurich, <<>>, <<"15">>),
      Entry(Stop(Str(IsoText(2, None))), Zurich, <<"IR">>, <<"15">>) }

\* entries that lack something
BadEntries ==
    { Entry(NoStop, Zurich, <<"IR">>, <<"15">>),
      Entry(NullStop, Zurich, <<"IR">>, <<"15">>),
      Entry(Stop(Missing), Zurich, <<"IR">>, <<"15">>),
      Entry(Stop(Null), Zurich, <<"IR">>, <<"15">>),
      Entry(Stop(Str(EmptyText)), Zurich, <<"IR">>, <<"15">>),
      Entry(Stop(Str(GarbageText)), Zurich, <<"IR">>, <<"15">>),
      Entry(Stop(Str(IsoText(1, Some(0)))), NoTo, <<"IR">>, <<"15">>),
      Entry(Stop(Str(IsoText(1, Some(0)))), NullTo, <<"IR">>, <<"15">>) }

Entries == GoodEntries \cup BadEntries

\* the entries of the stationboards the application receives: two departures
\* at the same instant, a later one, one without offset, one skipped and one
\* with a null stop
AppEntries ==
    { Entry(Stop(Str(IsoText(1, Some(0)))), Zurich, <<"IR">>, <<"15">>),
      Entry(Stop(Str(IsoText(3, Some(2)))), Zurich, <<"S">>, <<>>),
      Entry(Stop(Str(IsoText(3, Some(0)))), Zurich, <<>>, <<"15">>),
      Entry(Stop(Str(IsoText(2, None))), Zurich, <<"IR">>, <<"15">>),
      Entry(Stop(Str(GarbageText)), Zurich, <<"IR">>, <<"15">>),
      Entry(NullStop, Zurich, <<"IR">>, <<"15">>) }

SeqsUpTo(S, n) == UNION { [1..k -> S] : k \in 0..n }

Boards == SeqsUpTo(AppEntries, MaxBoard)

----------------------------------------------------------------------------
(* SwissTransportClient: parsing *)

Connection(destination, departure_time, line) ==
    [destination |-> destination, departure_time |-> departure_time, line |-> line]

\* _build_line_name: f"{category} {number}".strip()
_build_line_name(entry) == strip(entry.category \o <<" ">> \o entry.number)

\* the try block of _parse_single_entry, statement by statement
parse_single_entry_body(entry) ==
    IF entry.stop.kind = "missing" THEN Raised("KeyError")
    ELSE IF entry.stop.kind = "null" THEN Raised("TypeError")
    ELSE IF entry.stop.departure.kind = "missing" THEN Raised("KeyError")
    ELSE IF entry.stop.departure.kind = "null" THEN Returned(None)
    ELSE IF entry.stop.departure.text.form = "empty" THEN Returned(None)
    ELSE LET dep_time == fromisoformat(entry.stop.departure.text)
         IN  IF dep_time.exc # "" THEN dep_time
             ELSE IF entry.to.kind = "missing" THEN Raised("KeyError")
             ELSE IF entry.to.kind = "null" THEN Raised("ValueError")
             ELSE Returned(Some(Connection(entry.to.text, dep_time.val[1],
                                           _build_line_name(entry))))

\* the exception classes _parse_single_entry catches
ParseCaught == {"ValueError", "KeyError"}

\* _parse_single_entry: Optional[Connection], or the exception that escapes
_parse_single_entry(entry) ==
    LET r == parse_single_entry_body(entry)
    IN  IF r.exc = "" THEN Returned(r.val[1])
        ELSE IF r.exc \in ParseCaught THEN Returned(None)
        ELSE r

\* _parse_stationboard_entries: the loop stops at the first exception
RECURSIVE parse_entries_from(_, _)
parse_entries_from(entries, connections) ==
    IF entries = <<>> THEN Returned(connections)
    ELSE LET connection == _parse_single_entry(Head(entries))
         IN  IF connection.exc # "" THEN Raised(connection.exc)
             ELSE parse_entries_from(Tail(entries),
                                     connections \o connection.val[1])

_parse_stationboard_entries(entries) == parse_entries_from(entries, <<>>)

----------------------------------------------------------------------------
(* SwissTransportClient: station resolution *)

\* a result of the locations endpoint: some results are addresses without id
Station(id, name) == [id |-> id, name |-> name]

StationLists ==
    { <<>>,
      << Station(Some(<<>>), <<"D">>), Station(Some(<<"8507000">>), <<"C">>) >>,
      << Station(None, <<"A">>) >>,
      << Station(None, <<"A">>), Station(Some(<<"8500010">>), <<"B">>) >>,
      << Station(Some(<<"8507000">>), <<"C">>), Station(Some(<<"8500010">>), <<"B">>) >> }

\* station.get("id") is truthy: the id is neither None nor ""
has_id(s) == s.id # None /\ s.id[1] # <<>>

\* _filter_valid_stations
_filter_valid_stations(stations) == SelectSeq(stations, has_id)

\* mutant: the first station of the response is taken, id or not
first_station_unfiltered(stations) ==
    IF stations = <<>> THEN None ELSE Some(stations[1])

\* _find_nearest_station, after the response: Optional[station]
_find_nearest_station(stations) ==
    LET valid_stations == _filter_valid_stations(stations)
    IN  IF valid_stations = <<>> THEN None ELSE Some(valid_stations[1])

----------------------------------------------------------------------------
(* ConnectionService: the read side *)

Location(latitude, longitude, name) ==
    [latitude |-> latitude, longitude |-> longitude, name |-> name]

\* mutant: departures at now are kept (>= for >)
is_upcoming_or_now(c, now) ==
    LET r == datetime_gt(c.departure_time, now)
    IN  IF r.exc # "" THEN r
        ELSE Returned(r.val[1] \/ Instant(c.departure_time) = Instant(now))

\* mutant: the comparison is turned round (< for >)
is_departed(c, now) == datetime_lt(c.departure_time, now)

\* the predicate of the list comprehension: c.departure_time > now
is_upcoming(c, now) == datetime_gt(c.departure_time, now)

\* list.sort(key=lambda x: x.departure_time): stable; c goes before the first
\* element whose key is greater than its own
RECURSIVE insert_by_departure(_, _)
insert_by_departure(sorted, c) ==
    IF sorted = <<>> THEN <<c>>
    ELSE IF datetime_lt(c.departure_time, Head(sorted).departure_time).val[1]
         THEN <<c>> \o sorted
         ELSE <<Head(sorted)>> \o insert_by_departure(Tail(sorted), c)

RECURSIVE sort_from(_, _)
sort_from(rest, sorted) ==
    IF rest = <<>> THEN sorted
    ELSE sort_from(Tail(rest), insert_by_departure(sorted, Head(rest)))

\* mutant: the sort is left out
sort_left_out(connections) == connections

sort_by_departure(connections) == sort_from(connections, <<>>)

\* mutant: one element too many ([:limit + 1])
slice_one_more(s, limit) == SubSeq(s, 1, IF limit + 1 < Len(s) THEN limit + 1 ELSE Len(s))

\* valid_connections[:limit]
slice_to(s, limit) ==
    IF limit >= 0
    THEN SubSeq(s, 1, IF limit < Len(s) THEN limit ELSE Len(s))
    ELSE SubSeq(s, 1, IF Len(s) + limit > 0 THEN Len(s) + limit ELSE 0)

\* get_displayable_connections, with the now it computes as a parameter
get_displayable_connections(buf, t, limit) ==
    LET now == now_astimezone(t)
        keep(c) == is_upcoming(c, now).val[1]
    IN  IF \E i \in 1..Len(buf) : is_upcoming(buf[i], now).exc # ""
        THEN Raised("TypeError")
        ELSE Returned(slice_to(sort_by_departure(SelectSeq(buf, keep)), limit))

Locating == <<"Locating...">>

\* get_location_name
get_location_name(location) ==
    IF location # None /\ location[1].name # None /\ location[1].name[1] # <<>>
    THEN location[1].name[1]
    ELSE Locating

----------------------------------------------------------------------------
(* The application: ConnectionService.update_buffer run by the coroutine   *)
(* "main" (TUIApplication._initialize) and by the task "task"             *)
(* (BackgroundUpdater._update_loop), and the display loop of "main".       *)

Callers == {"main", "task"}

\* what the Location Provider can return
Locations ==
    { Location(469480, 74474, Some(<<"Bern (Fallback)">>)),
      Location(473769, 85417, None) }

\* failures of an HTTP call: raise_for_status, or no connection
HttpErrors == {"HTTPStatusError", "ConnectError"}

\* the subclasses of Exception among the exceptions of the model
ExceptionClasses ==
    { "HTTPStatusError", "ConnectError", "TypeError", "KeyError", "ValueError",
      "JSONDecodeError", "PermissionError" }

\* mutant: only httpx.HTTPStatusError is caught
catches_status_error_only(e) == e = "HTTPStatusError"

\* except Exception, in update_buffer
update_buffer_catches(e) == e \in ExceptionClasses

\* mutant: the buffer is written while the result is still being built, and
\* holds its first connection only
store_partial(old, new) == IF new = <<>> THEN new ELSE <<new[1]>>

\* mutant: the new connections are appended to the old ones
store_appended(old, new) == old \o new

\* self._buffer = new_connections
store_connections(old, new) == new

\* mutant: the except clause empties the buffer
except_clears_buffer(old) == <<>>

\* the buffer after the except clause of update_buffer, which only prints
except_clause_buffer(old) == old

NoSnapshot == [buffer |-> <<>>, current_location |-> None]
NoExc == [step |-> "", error |-> ""]

\* mutant: the task calls update_buffer again without sleeping
continues_without_sleep(self) == IF self = "main" THEN "start" ELSE "update_buffer"

\* where a caller continues when update_buffer returns
Continuation(self) == IF self = "main" THEN "start" ELSE "sleep"

PureIdle ==
    /\ stationboard = <<>>
    /\ parsed = None
    /\ call = None
    /\ config = None
    /\ loaded = None

\* mutant: the task is created before the first update_buffer is awaited
_initialize_starts_first == [main |-> "update_buffer", task |-> "update_buffer"]

\* TUIApplication._initialize: main awaits update_buffer, the task is not
\* created before that
_initialize == [main |-> "update_buffer", task |-> "not_started"]

Init ==
    /\ buffer = <<>>
    /\ current_location = None
    /\ pc = _initialize
    /\ loc_data = None
    /\ last_lookup = None
    /\ before = NoSnapshot
    /\ exc = NoExc
    /\ new_connections = None
    /\ located = None
    /\ station = None
    /\ shown = None
    /\ PureIdle

PureUnchanged == UNCHANGED <<stationboard, parsed, call, config, loaded>>

\* mutant: every update_buffer asks the Location Provider
always_locates(location) == TRUE

\* if not self.current_location
needs_location(location) == location = None

\* the awaits of update_buffer, and the step each belongs to
NetworkAwaits == {"get_current_location", "find_station", "fetch_stationboard"}

AwaitOf(p) ==
    IF p = "get_current_location" THEN "location"
    ELSE IF p \in {"find_station", "fetch_stationboard"} THEN "lookup"
    ELSE "sleep"

\* BackgroundUpdater.stop has called self._task.cancel() and awaits the task
CancelRequested == pc["main"] = "shutdown"

\* the await at which a coroutine stands returns or raises what was awaited,
\* which it does not once the task's cancellation is requested
Resumes(self, at) ==
    /\ pc[self] = at
    /\ ~(self = "task" /\ CancelRequested)

\* the except clause of update_buffer, or the exception leaves update_buffer:
\* CancelledError is no Exception and ends the coroutine it is thrown into
Except(self, step, e) ==
    /\ pc' = [pc EXCEPT ![self] = IF update_buffer_catches(e) THEN "except"
                                  ELSE IF e = "CancelledError" THEN "cancelled"
                                  ELSE "raised"]
    /\ exc' = [step |-> step, error |-> e]
    /\ buffer' = IF update_buffer_catches(e) THEN except_clause_buffer(buffer) ELSE buffer

\* update_buffer is entered: the test of current_location
UpdateBufferEnter(self) ==
    /\ Resumes(self, "update_buffer")
    /\ before' = [buffer |-> buffer, current_location |-> current_location]
    /\ pc' = [pc EXCEPT ![self] = IF needs_location(current_location)
                                  THEN "get_current_location" ELSE "find_station"]
    /\ UNCHANGED <<buffer, current_location, exc, new_connections, located, station,
                   loc_data, last_lookup, shown>>
    /\ PureUnchanged

\* get_current_location returns: the location is stored, the lookup starts
GetLocationReturn(self) ==
    /\ Resumes(self, "get_current_location")
    /\ \E loc \in Locations :
        /\ current_location' = Some(loc)
        /\ located' = Some(loc)
    /\ pc' = [pc EXCEPT ![self] = "find_station"]
    /\ UNCHANGED <<buffer, before, exc, new_connections, station, loc_data,
                   last_lookup, shown>>
    /\ PureUnchanged

\* get_current_location raises
GetLocationRaise(self) ==
    /\ Resumes(self, "get_current_location")
    /\ \E e \in HttpErrors : Except(self, "location", e)
    /\ UNCHANGED <<current_location, before, new_connections, located, station,
                   loc_data, last_lookup, shown>>
    /\ PureUnchanged

\* mutant: the buffer is emptied when the stationboard request starts
cleared_for_lookup(old) == <<>>

\* the buffer while get_connections runs: nothing writes it before line 24
buffer_during_lookup(old) == old

\* the locations request of get_connections returns: no valid station ends
\* the lookup with [], a valid one is kept for the stationboard request
FindStationReturn(self) ==
    /\ Resumes(self, "find_station")
    /\ \E stations \in StationLists :
        LET found == _find_nearest_station(stations)
        IN  /\ loc_data' = Some(stations)
            /\ IF found = None
               THEN /\ new_connections' = Some(<<>>)
                    /\ last_lookup' = Some(<<>>)
                    /\ buffer' = store_connections(buffer, <<>>)
                    /\ station' = None
                    /\ pc' = [pc EXCEPT ![self] = "updated"]
               ELSE /\ station' = found
                    /\ pc' = [pc EXCEPT ![self] = "fetch_stationboard"]
                    /\ buffer' = buffer_during_lookup(buffer)
                    /\ UNCHANGED <<new_connections, last_lookup>>
    /\ UNCHANGED <<current_location, before, exc, located, shown>>
    /\ PureUnchanged

\* the locations request fails
FindStationRaise(self) ==
    /\ Resumes(self, "find_station")
    /\ \E e \in HttpErrors : Except(self, "lookup", e)
    /\ UNCHANGED <<current_location, before, new_connections, located, station,
                   loc_data, last_lookup, shown>>
    /\ PureUnchanged

\* the stationboard request returns: the entries are parsed and the result
\* replaces the buffer, unless parsing raises; get_connections is left, and
\* its locals with it
FetchStationboardReturn(self) ==
    /\ Resumes(self, "fetch_stationboard")
    /\ \E entries \in Boards :
        LET connections == _parse_stationboard_entries(entries)
        IN  IF connections.exc = ""
            THEN /\ new_connections' = Some(connections.val[1])
                 /\ last_lookup' = Some(connections.val[1])
                 /\ buffer' = store_connections(buffer, connections.val[1])
                 /\ pc' = [pc EXCEPT ![self] = "updated"]
                 /\ exc' = exc
            ELSE /\ Except(self, "lookup", connections.exc)
                 /\ UNCHANGED <<new_connections, last_lookup>>
    /\ station' = None
    /\ loc_data' = None
    /\ UNCHANGED <<current_location, before, located, shown>>
    /\ PureUnchanged

\* the stationboard request fails
FetchStationboardRaise(self) ==
    /\ Resumes(self, "fetch_stationboard")
    /\ \E e \in HttpErrors : Except(self, "lookup", e)
    /\ station' = None
    /\ loc_data' = None
    /\ UNCHANGED <<current_location, before, new_connections, located, last_lookup,
                   shown>>
    /\ PureUnchanged

\* update_buffer returns to its caller, normally in both cases
UpdateBufferReturn(self) ==
    /\ pc[self] \in {"except", "updated"}
    /\ pc' = [pc EXCEPT ![self] = Continuation(self)]
    /\ before' = NoSnapshot
    /\ exc' = NoExc
    /\ new_connections' = None
    /\ located' = None
    /\ station' = None
    /\ loc_data' = None
    /\ UNCHANGED <<buffer, current_location, last_lookup, shown>>
    /\ PureUnchanged

\* where CancelledError can be thrown into a coroutine: main is cancelled by
\* the signal at any await of its first update_buffer; the task, once stop
\* has requested it, at the await where it stands, or before it first runs
CancelPoints(self) ==
    IF self = "main" THEN NetworkAwaits
    ELSE IF CancelRequested THEN NetworkAwaits \cup {"sleep", "update_buffer"}
    ELSE {}

\* CancelledError is thrown into the coroutine at its await
Cancelled(self) ==
    /\ pc[self] \in CancelPoints(self)
    /\ Except(self, AwaitOf(pc[self]), "CancelledError")
    /\ UNCHANGED <<current_location, before, new_connections, located, station,
                   loc_data, last_lookup, shown>>
    /\ PureUnchanged

\* service.get_displayable_connections(limit=10)
DisplayLimit == 10

\* BackgroundUpdater.start: the task is created
StartTask ==
    /\ pc["main"] = "start"
    /\ pc' = [main |-> "display", task |-> "update_buffer"]
    /\ UNCHANGED <<buffer, current_location, before, exc, new_connections, located,
                   station, loc_data, last_lookup, shown>>
    /\ PureUnchanged

\* asyncio.sleep(update_interval) of the task is over
SleepDone ==
    /\ Resumes("task", "sleep")
    /\ pc' = [pc EXCEPT !["task"] = "update_buffer"]
    /\ UNCHANGED <<buffer, current_location, before, exc, new_connections, located,
                   station, loc_data, last_lookup, shown>>
    /\ PureUnchanged

\* mutant: the display waits for a refresh that is at a network call
display_waits_for_refresh(p) == p["main"] = "display" /\ p["task"] \notin NetworkAwaits

\* main is in _refresh_loop, between two asyncio.sleep(1)
display_loop_runs(p) == p["main"] = "display"

\* mutant: the buffer itself is filtered and sorted
buffer_sorted_in_place(buf, t) ==
    LET connections == get_displayable_connections(buf, t, Len(buf))
    IN  IF connections.exc = "" THEN connections.val[1] ELSE buf

\* the buffer after get_displayable_connections: the comprehension builds a
\* new list, and that list is the one sorted
buffer_after_display(buf, t) == buf

\* DisplayUpdater.update: the label and the connections are read, at whatever
\* instant the wall clock shows; an exception of the service leaves run_tui,
\* and asyncio.run cancels the task
DisplayUpdate ==
    /\ display_loop_runs(pc)
    /\ \E t \in 0..MaxTime :
        LET connections == get_displayable_connections(buffer, t, DisplayLimit)
        IN  /\ shown' = Some([location_name |-> get_location_name(current_location),
                              location |-> current_location,
                              exc |-> connections.exc])
            /\ buffer' = buffer_after_display(buffer, t)
            /\ pc' = IF connections.exc = "" THEN pc
                     ELSE [main |-> "crashed", task |-> "cancelled"]
    /\ UNCHANGED <<current_location, before, exc, new_connections, located, station,
                   loc_data, last_lookup>>
    /\ PureUnchanged

\* KeyboardInterrupt or CancelledError reaches main in _refresh_loop:
\* _run_display_loop catches it and calls _shutdown, stop cancels the task
\* and awaits it
Interrupt ==
    /\ pc["main"] = "display"
    /\ pc' = [pc EXCEPT !["main"] = "shutdown"]
    /\ UNCHANGED <<buffer, current_location, before, exc, new_connections, located,
                   station, loc_data, last_lookup, shown>>
    /\ PureUnchanged

\* mutant: stop cancels the task and returns without awaiting it
task_not_awaited(p) == TRUE

\* await self._task is over: the task has ended
task_done(p) == p \in {"cancelled", "raised"}

\* BackgroundUpdater.stop returns, the interruption is raised again
StopReturn ==
    /\ pc["main"] = "shutdown"
    /\ task_done(pc["task"])
    /\ pc' = [pc EXCEPT !["main"] = "stopped"]
    /\ UNCHANGED <<buffer, current_location, before, exc, new_connections, located,
                   station, loc_data, last_lookup, shown>>
    /\ PureUnchanged

Next ==
    \/ \E self \in Callers :
        \/ UpdateBufferEnter(self)
        \/ GetLocationReturn(self)
        \/ GetLocationRaise(self)
        \/ FindStationReturn(self)
        \/ FindStationRaise(self)
        \/ FetchStationboardReturn(self)
        \/ FetchStationboardRaise(self)
        \/ UpdateBufferReturn(self)
        \/ Cancelled(self)
    \/ StartTask
    \/ SleepDone
    \/ DisplayUpdate
    \/ Interrupt
    \/ StopReturn

Spec == Init /\ [][Next]_vars

----------------------------------------------------------------------------
(* The specifications of the pure parts draw an input in their initial     *)
(* state and apply the function; the application does not run in them.     *)

AppIdle ==
    /\ loc_data = None
    /\ last_lookup = None
    /\ current_location = None
    /\ pc = [main |-> "off", task |-> "off"]
    /\ before = NoSnapshot
    /\ exc = NoExc
    /\ new_connections = None
    /\ located = None
    /\ station = None
    /\ shown = None

AppUnchanged ==
    UNCHANGED <<current_location, pc, before, exc, new_connections, located, station,
                loc_data, last_lookup, shown>>

(* Parsing: _parse_stationboard_entries on any stationboard *)

InitParse ==
    /\ stationboard \in SeqsUpTo(Entries, MaxEntries)
    /\ parsed = None
    /\ buffer = <<>>
    /\ call = None
    /\ config = None
    /\ loaded = None
    /\ AppIdle

ParseStationboard ==
    /\ parsed = None
    /\ parsed' = Some(_parse_stationboard_entries(stationboard))
    /\ UNCHANGED <<buffer, stationboard, call, config, loaded>>
    /\ AppUnchanged

NextParse == ParseStationboard

SpecParse == InitParse /\ [][NextParse]_vars

(* Display: get_displayable_connections on any buffer, at any instant *)

\* the connections the good entries parse to
Connections == { parse_single_entry_body(e).val[1][1] : e \in GoodEntries }

InitDisplay ==
    /\ buffer \in SeqsUpTo(Connections, MaxBuf)
    /\ call = None
    /\ stationboard = <<>>
    /\ parsed = None
    /\ config = None
    /\ loaded = None
    /\ AppIdle

\* a call of get_displayable_connections(limit) at the instant t; earlier
\* holds the instant and the result of the call before it, when that call
\* had the same limit
GetDisplayable ==
    /\ \E limit \in 0..MaxLimit, t \in 0..MaxTime :
        call' = Some([limit |-> limit, t |-> t,
                      result |-> get_displayable_connections(buffer, t, limit),
                      earlier |-> None])
    /\ UNCHANGED <<buffer, stationboard, parsed, config, loaded>>
    /\ AppUnchanged

\* the same call again, with the same limit, when the clock has not gone back
GetDisplayableLater ==
    /\ call # None
    /\ call[1].earlier = None
    /\ \E t \in call[1].t..MaxTime :
        call' = Some([limit |-> call[1].limit, t |-> t,
                      result |-> get_displayable_connections(buffer, t, call[1].limit),
                      earlier |-> Some([t |-> call[1].t, result |-> call[1].result])])
    /\ UNCHANGED <<buffer, stationboard, parsed, config, loaded>>
    /\ AppUnchanged

NextDisplay == GetDisplayable \/ GetDisplayableLater

SpecDisplay == InitDisplay /\ [][NextDisplay]_vars

----------------------------------------------------------------------------
(* ConfigurationService: the chain of configuration sources.  Coordinates  *)
(* are in 1/10000 of a degree.  A text is empty, numeric or neither.       *)

EmptyNumber == [form |-> "empty", value |-> 0]
NotANumber == [form |-> "text", value |-> 0]
NumberText(v) == [form |-> "numeric", value |-> v]

\* float() of a str
float_of_text(text) ==
    IF text.form = "numeric" THEN Returned(text.value) ELSE Raised("ValueError")

\* the value of a key of the JSON object of a station file
JMissing == [kind |-> "missing", text |-> EmptyNumber]
JNull == [kind |-> "null", text |-> EmptyNumber]
JNumber(v) == [kind |-> "num", text |-> NumberText(v)]
JText(text) == [kind |-> "str", text |-> text]

\* float(data[key])
float_of_key(v) ==
    IF v.kind = "missing" THEN Raised("KeyError")
    ELSE IF v.kind = "null" THEN Raised("TypeError")
    ELSE float_of_text(v.text)

\* a station file: absent, one that open() refuses, one that is not JSON, or
\* a JSON object
File(exists, readable, json, lat, lon, name) ==
    [exists |-> exists, readable |-> readable, json |-> json,
     lat |-> lat, lon |-> lon, name |-> name]

NameMissing == [kind |-> "missing", text |-> <<>>]
NameNull == [kind |-> "null", text |-> <<>>]
NameText(text) == [kind |-> "str", text |-> text]

FileStates ==
    { File(FALSE, FALSE, FALSE, JMissing, JMissing, NameMissing),
      File(TRUE, FALSE, FALSE, JMissing, JMissing, NameMissing),
      File(TRUE, TRUE, FALSE, JMissing, JMissing, NameMissing),
      File(TRUE, TRUE, TRUE, JMissing, JNumber(85417), NameText(<<"Depot">>)),
      File(TRUE, TRUE, TRUE, JNumber(473769), JText(NotANumber), NameText(<<"Depot">>)),
      File(TRUE, TRUE, TRUE, JNumber(473769), JNull, NameMissing),
      File(TRUE, TRUE, TRUE, JNumber(473769), JNumber(85417), NameMissing),
      File(TRUE, TRUE, TRUE, JText(NumberText(465167)), JNumber(66291), NameText(<<"Depot">>)),
      File(TRUE, TRUE, TRUE, JNumber(473769), JNumber(85417), NameNull) }

\* the environment: each variable unset (None) or set to a text
EnvTexts == { None, Some(EmptyNumber), Some(NotANumber), Some(NumberText(470000)) }
EnvNames == { None, Some(<<"Kiosk">>) }

Configs ==
    [ local : FileStates, boot : FileStates,
      GLEIS_LAT : EnvTexts, GLEIS_LON : EnvTexts, GLEIS_NAME : EnvNames ]

\* FileConfigSource._parse_location_data
_parse_location_data(data) ==
    LET lat == float_of_key(data.lat)
        lon == float_of_key(data.lon)
    IN  IF lat.exc # "" THEN lat
        ELSE IF lon.exc # "" THEN lon
        ELSE Returned(Location(lat.val[1], lon.val[1],
                               IF data.name.kind = "missing" THEN Some(<<"My Station">>)
                               ELSE IF data.name.kind = "null" THEN None
                               ELSE Some(data.name.text)))

\* FileConfigSource._read_json_file, then _parse_location_data
file_read_and_parse(file) ==
    IF ~file.readable THEN Raised("PermissionError")
    ELSE IF ~file.json THEN Raised("JSONDecodeError")
    ELSE _parse_location_data(file)

\* mutant: FileConfigSource.load catches ValueError and its subclasses only
file_load_catches_value_error(e) == e \in {"ValueError", "JSONDecodeError"}

\* except Exception, in FileConfigSource.load
file_load_catches(e) == e \in ExceptionClasses

\* FileConfigSource.load: an Optional[Location], or the exception that escapes
file_load(file) ==
    IF ~file.exists THEN Returned(None)
    ELSE LET location == file_read_and_parse(file)
         IN  IF location.exc = "" THEN Returned(location.val)
             ELSE IF file_load_catches(location.exc) THEN Returned(None)
             ELSE location

\* EnvironmentConfigSource._create_location
_create_location(lat, lon, name) ==
    LET la == float_of_text(lat)
        lo == float_of_text(lon)
    IN  IF la.exc # "" THEN la
        ELSE IF lo.exc # "" THEN lo
        ELSE Returned(Location(la.val[1], lo.val[1],
                               IF name = None THEN Some(<<"Unknown">>) ELSE name))

\* except ValueError, in EnvironmentConfigSource.load
env_load_catches(e) == e \in {"ValueError", "JSONDecodeError"}

\* EnvironmentConfigSource.load: an Optional[Location], or the exception that
\* escapes
env_load(cfg) ==
    IF cfg.GLEIS_LAT = None \/ cfg.GLEIS_LAT[1].form = "empty" THEN Returned(None)
    ELSE IF cfg.GLEIS_LON = None \/ cfg.GLEIS_LON[1].form = "empty" THEN Returned(None)
    ELSE LET location == _create_location(cfg.GLEIS_LAT[1], cfg.GLEIS_LON[1],
                                          cfg.GLEIS_NAME)
         IN  IF location.exc = "" THEN Returned(location.val)
             ELSE IF env_load_catches(location.exc) THEN Returned(None)
             ELSE location

DEFAULT_LAT == 469480
DEFAULT_LON == 74474
DEFAULT_NAME == <<"Bern (Fallback)">>

\* DefaultConfigSource.load
default_load == Returned(Some(Location(DEFAULT_LAT, DEFAULT_LON, Some(DEFAULT_NAME))))

\* mutant: the environment is asked before the files
sources_environment_first ==
    << "environment variables", "local file", "boot partition", "default fallback" >>

\* ConfigurationService._initialize_sources: the sources by get_source_name
_initialize_sources ==
    << "local file", "boot partition", "environment variables", "default fallback" >>

\* source.load() of the source of that name
source_load(source, cfg) ==
    IF source = "local file" THEN file_load(cfg.local)
    ELSE IF source = "boot partition" THEN file_load(cfg.boot)
    ELSE IF source = "environment variables" THEN env_load(cfg)
    ELSE default_load

\* load_location: the loop over the sources; consulted lists the sources
\* whose load was called, exc names the exception that leaves load_location
RECURSIVE load_from(_, _, _)
load_from(sources, cfg, consulted) ==
    IF sources = <<>>
    THEN [exc |-> "RuntimeError", val |-> None, consulted |-> consulted]
    ELSE LET location == source_load(Head(sources), cfg)
         IN  IF location.exc # ""
             THEN [exc |-> location.exc, val |-> None,
                   consulted |-> Append(consulted, Head(sources))]
             ELSE IF location.val[1] # None
             THEN [exc |-> "", val |-> location.val[1],
                   consulted |-> Append(consulted, Head(sources))]
             ELSE load_from(Tail(sources), cfg, Append(consulted, Head(sources)))

load_location(cfg) == load_from(_initialize_sources, cfg, <<>>)

InitConfig ==
    /\ config \in { Some(c) : c \in Configs }
    /\ loaded = None
    /\ buffer = <<>>
    /\ stationboard = <<>>
    /\ parsed = None
    /\ call = None
    /\ AppIdle

LoadLocation ==
    /\ loaded = None
    /\ loaded' = Some(load_location(config[1]))
    /\ UNCHANGED <<buffer, stationboard, parsed, call, config>>
    /\ AppUnchanged

NextConfig == LoadLocation

SpecConfig == InitConfig /\ [][NextConfig]_vars

----------------------------------------------------------------------------
(* Fairness: the event loop resumes a coroutine whose await is over, so    *)
(* update_buffer returns to the task and the task's sleep ends, and it     *)
(* throws a requested cancellation into the task.                          *)

FairSpec ==
    /\ Spec
    /\ WF_vars(UpdateBufferReturn("task"))
    /\ WF_vars(SleepDone)
    /\ WF_vars(Cancelled("task"))

----------------------------------------------------------------------------
(* Claims *)

\* C1, as stated: at the end of every update_buffer in which the Location
\* Provider or the Transit Lookup failed, the buffer and current_location
\* are what they were when the call began.
C1_FailureChangesNothing ==
    \A self \in Callers :
        pc[self] = "except" =>
            /\ buffer = before.buffer
            /\ current_location = before.current_location

\* C1, amended: a failed update_buffer leaves the buffer as it was; it leaves
\* current_location as it was when the provider failed or the location was
\* already set, and otherwise (location unset, provider succeeded, lookup
\* failed) current_location holds the Location the provider returned.
C1_FailureKeepsBuffer ==
    \A self \in Callers :
        pc[self] = "except" =>
            /\ buffer = before.buffer
            /\ IF before.current_location = None /\ exc.step = "lookup"
               THEN located # None /\ current_location = located
               ELSE current_location = before.current_location

\* a lookup fails in the task while the buffer holds connections
C1_Witness ==
    /\ pc["task"] = "except"
    /\ exc.step = "lookup"
    /\ buffer # <<>>
    /\ before.buffer = buffer

\* C2: get_displayable_connections returns no connection that departs at or
\* before the now of the call.
C2_NoDepartedReturned ==
    call # None =>
        \A i \in 1..Len(call[1].result.val) :
            \A j \in 1..Len(call[1].result.val[i]) :
                LET c == call[1].result.val[i][j]
                IN  IsAware(c.departure_time) /\ Instant(c.departure_time) > call[1].t

\* a call returns connections and hides one that departs exactly at now
C2_Witness ==
    /\ call # None
    /\ call[1].result.exc = ""
    /\ call[1].result.val[1] # <<>>
    /\ \E i \in 1..Len(buffer) :
        /\ IsAware(buffer[i].departure_time)
        /\ Instant(buffer[i].departure_time) = call[1].t

\* the positions of the buffer that have not departed at UTC instant t
Upcoming(buf, t) ==
    { i \in 1..Len(buf) :
        IsAware(buf[i].departure_time) /\ Instant(buf[i].departure_time) > t }

Min(a, b) == IF a < b THEN a ELSE b

\* out lists distinct upcoming positions of buf, earliest first, and every
\* upcoming position it leaves out departs no earlier than all it lists
IsEarliestOf(out, buf, t) ==
    \E f \in [1..Len(out) -> Upcoming(buf, t)] :
        /\ \A i, j \in 1..Len(out) : i # j => f[i] # f[j]
        /\ \A i \in 1..Len(out) : out[i] = buf[f[i]]
        /\ \A i, j \in 1..Len(out) :
            i < j => Instant(out[i].departure_time) <= Instant(out[j].departure_time)
        /\ \A k \in Upcoming(buf, t) :
            (\A i \in 1..Len(out) : f[i] # k) =>
                \A i \in 1..Len(out) :
                    Instant(out[i].departure_time) <= Instant(buf[k].departure_time)

\* C3: a call that returns gives the first `limit` of the buffer's upcoming
\* connections in ascending order of departure (all of them when fewer
\* remain): never more than limit or than the buffer holds, and never a later
\* departure while an earlier upcoming one is left out.
C3_EarliestUpcomingUpToLimit ==
    (call # None /\ call[1].result.exc = "") =>
        LET out == call[1].result.val[1]
        IN  /\ Len(out) = Min(call[1].limit, Cardinality(Upcoming(buffer, call[1].t)))
            /\ Len(out) <= Len(buffer)
            /\ IsEarliestOf(out, buffer, call[1].t)

\* three upcoming connections out of order, limit 2: the two earliest come
\* back, which are not the first two of the buffer
C3_Witness ==
    /\ call # None
    /\ call[1].result.exc = ""
    /\ call[1].limit = 2
    /\ Cardinality(Upcoming(buffer, call[1].t)) = 3
    /\ Len(call[1].result.val[1]) = 2
    /\ call[1].result.val[1] # SubSeq(buffer, 1, 2)
    /\ call[1].result.val[1][1] # buffer[1]

\* C4, as stated: the output of get_displayable_connections is sorted
\* strictly ascending by departure_time.
C4_StrictlyAscending ==
    (call # None /\ call[1].result.exc = "") =>
        LET out == call[1].result.val[1]
        IN  \A i \in 1..(Len(out) - 1) :
                Instant(out[i].departure_time) < Instant(out[i + 1].departure_time)

\* C4, amended: the output is sorted ascending by departure_time; entries
\* that depart at the same instant follow one another.
C4_Ascending ==
    (call # None /\ call[1].result.exc = "") =>
        LET out == call[1].result.val[1]
        IN  \A i \in 1..(Len(out) - 1) :
                Instant(out[i].departure_time) <= Instant(out[i + 1].departure_time)

\* the output holds two connections of the same instant after reordering
C4_Witness ==
    /\ call # None
    /\ call[1].result.exc = ""
    /\ call[1].result.val[1] # SubSeq(buffer, 1, Len(call[1].result.val[1]))
    /\ \E i \in 1..(Len(call[1].result.val[1]) - 1) :
        Instant(call[1].result.val[1][i].departure_time)
            = Instant(call[1].result.val[1][i + 1].departure_time)

\* C5: a display update gets a sequence from get_displayable_connections
\* and never an exception, whatever the refreshes stored.
C5_DisplayNeverRaises == shown # None => shown[1].exc = ""

\* C6: every connection in the buffer has a timezone-aware departure_time.
C6_BufferAlwaysAware ==
    \A i \in 1..Len(buffer) : IsAware(buffer[i].departure_time)

\* an entry with a stop object, a departure that is ISO 8601 text and a destination
WellFormed(entry) ==
    /\ entry.stop.kind = "obj"
    /\ entry.stop.departure.kind = "str"
    /\ entry.stop.departure.text.form = "iso"
    /\ entry.to.kind = "str"

\* the connections of the well-formed entries, in their order
RECURSIVE ConnectionsOfWellFormed(_)
ConnectionsOfWellFormed(entries) ==
    IF entries = <<>> THEN <<>>
    ELSE LET e == Head(entries)
         IN  (IF WellFormed(e)
              THEN << Connection(e.to.text,
                                 datetime(e.stop.departure.text.wall,
                                          e.stop.departure.text.utcoffset),
                                 _build_line_name(e)) >>
              ELSE <<>>) \o ConnectionsOfWellFormed(Tail(entries))

\* C7: parsing a stationboard never fails and returns the connections of
\* exactly its well-formed entries, in their order.
C7_MalformedSkippedIndividually ==
    parsed # None =>
        /\ parsed[1].exc = ""
        /\ parsed[1].val = Some(ConnectionsOfWellFormed(stationboard))

\* C8: when update_buffer has stored a lookup's result, the buffer is exactly
\* that result, nothing of the previous buffer with it.
C8_BufferIsLookupResult ==
    \A self \in Callers :
        pc[self] = "updated" => new_connections # None /\ buffer = new_connections[1]

\* no valid station: the lookup returns [] and a buffer that held
\* connections is empty
C8_Witness ==
    /\ pc["task"] = "updated"
    /\ before.buffer # <<>>
    /\ station = None
    /\ new_connections = Some(<<>>)
    /\ buffer = <<>>

\* C9: no failure leaves update_buffer as an exception, and after a failed
\* cycle the task goes on to its next update_buffer, unless the application
\* ends and cancels it.
C9_FailedCycleIsFollowedByAnother ==
    /\ [](\A self \in Callers : pc[self] # "raised")
    /\ (pc["task"] = "except") ~> (pc["task"] \in {"update_buffer", "cancelled"})

\* the task's lookup failed for want of a connection
C9_Witness ==
    /\ pc["task"] = "except"
    /\ exc.error = "ConnectError"

\* a station file yields a location: it exists, is readable JSON, and lat and lon
\* are numbers or numeric texts
FileYields(file) ==
    /\ file.exists
    /\ file.readable
    /\ file.json
    /\ \A v \in {file.lat, file.lon} :
        v.kind = "num" \/ (v.kind = "str" /\ v.text.form = "numeric")

\* the environment yields a location: both variables are numeric texts
EnvYields(cfg) ==
    \A v \in {cfg.GLEIS_LAT, cfg.GLEIS_LON} : v # None /\ v[1].form = "numeric"

\* C10: load_location returns the Location of the first of local file, boot
\* file, environment, fallback that yields one, having consulted the sources
\* up to it and none after it; the environment alone gives its own values and
\* nothing at all gives the fallback location with its name.
C10_FirstYieldingSourceWins ==
    loaded # None =>
        LET cfg == config[1]
            got == loaded[1]
        IN  /\ got.exc = ""
            /\ IF FileYields(cfg.local)
               THEN /\ got.consulted = << "local file" >>
                    /\ got.val[1].latitude = cfg.local.lat.text.value
                    /\ got.val[1].longitude = cfg.local.lon.text.value
               ELSE IF FileYields(cfg.boot)
               THEN /\ got.consulted = << "local file", "boot partition" >>
                    /\ got.val[1].latitude = cfg.boot.lat.text.value
                    /\ got.val[1].longitude = cfg.boot.lon.text.value
               ELSE IF EnvYields(cfg)
               THEN /\ got.consulted
                        = << "local file", "boot partition", "environment variables" >>
                    /\ got.val[1] = Location(cfg.GLEIS_LAT[1].value, cfg.GLEIS_LON[1].value,
                                             IF cfg.GLEIS_NAME = None
                                             THEN Some(<<"Unknown">>) ELSE cfg.GLEIS_NAME)
               ELSE /\ got.consulted = << "local file", "boot partition",
                                          "environment variables", "default fallback" >>
                    /\ got.val[1] = Location(469480, 74474, Some(<<"Bern (Fallback)">>))

\* no file is present and both variables are numeric: the location of the
\* environment is returned, not the fallback
C10_Witness ==
    /\ loaded # None
    /\ ~config[1].local.exists
    /\ ~config[1].boot.exists
    /\ EnvYields(config[1])
    /\ loaded[1].val[1].latitude = 470000
    /\ loaded[1].val[1].name # Some(<<"Bern (Fallback)">>)

\* the sources whose load abstains: it returns None
Abstains(source, cfg) ==
    \/ source = "local file" /\ ~FileYields(cfg.local)
    \/ source = "boot partition" /\ ~FileYields(cfg.boot)
    \/ source = "environment variables" /\ ~EnvYields(cfg)

C13_LaterCallReturnsNoMore ==
    (call # None /\ call[1].earlier # None) =>
        LET first == call[1].earlier[1]
            second == call[1]
        IN  /\ first.t <= second.t
            /\ second.result.exc = first.result.exc
            /\ (first.result.exc = "" =>
                    Len(second.result.val[1]) <= Len(first.result.val[1]))

\* two calls on one buffer, the later one strictly later and returning
\* strictly fewer entries, the earlier one cut by the limit
C13_Witness ==
    /\ call # None
    /\ call[1].earlier # None
    /\ call[1].earlier[1].t < call[1].t
    /\ call[1].result.exc = ""
    /\ Len(call[1].earlier[1].result.val[1]) = call[1].limit
    /\ Len(call[1].result.val[1]) >= 1
    /\ Len(call[1].result.val[1]) < Len(call[1].earlier[1].result.val[1])

\* the station of the response has an identifier
HasIdentifier(s) == s.id \notin {None, Some(<<>>)}

\* C12: the stationboard is fetched for the first station of the locations
\* response, in its order, that has an identifier, every earlier result
\* without one being skipped; when no station of the response has one the
\* lookup returns the empty sequence without raising and without a
\* stationboard request.
C12_FirstStationWithIdIsUsed ==
    \A self \in Callers :
        /\ pc[self] = "fetch_stationboard" =>
            /\ loc_data # None
            /\ station # None
            /\ \E k \in 1..Len(loc_data[1]) :
                /\ station[1] = loc_data[1][k]
                /\ HasIdentifier(loc_data[1][k])
                /\ \A j \in 1..(k - 1) : ~HasIdentifier(loc_data[1][j])
        /\ (/\ pc[self] \in {"fetch_stationboard", "updated", "except", "raised"}
            /\ loc_data # None
            /\ \A k \in 1..Len(loc_data[1]) : ~HasIdentifier(loc_data[1][k]))
           => /\ pc[self] = "updated"
              /\ station = None
              /\ new_connections = Some(<<>>)
              /\ exc = NoExc

\* the stationboard request is under way for the second station of a
\* response whose first station has no identifier
C12_Witness ==
    /\ pc["task"] = "fetch_stationboard"
    /\ loc_data # None
    /\ Len(loc_data[1]) = 2
    /\ ~HasIdentifier(loc_data[1][1])
    /\ station = Some(loc_data[1][2])

\* C14: current_location is assigned at most once. Once it holds a Location
\* no step changes it or unsets it, and the Location Provider is called only
\* while it is unset, so no later update_buffer calls the provider again.
C14_LocationAssignedOnce ==
    /\ [](\A self \in Callers :
            pc[self] = "get_current_location" => current_location = None)
    /\ [][/\ (current_location # None => current_location' = current_location)
          /\ \A self \in Callers :
                (pc'[self] = "get_current_location" /\ pc[self] # "get_current_location")
                    => current_location = None]_vars

\* the task is in a lookup of a later update_buffer, which started at the
\* location the first one stored and did not ask the provider
C14_Witness ==
    /\ pc["task"] = "fetch_stationboard"
    /\ current_location # None
    /\ before.current_location = current_location
    /\ located = None

\* C15: when the display loop is interrupted, stop cancels the task and
\* awaits it: once stop has returned the task has ended, wherever the
\* cancellation reached it, and from then on no update_buffer runs, no
\* provider or lookup call is made and the buffer is not written.
C15_StopLeavesNoTaskBehind ==
    /\ [](pc["main"] = "stopped" => pc["task"] = "cancelled")
    /\ [][pc["main"] = "stopped" =>
            /\ pc' = pc
            /\ buffer' = buffer
            /\ current_location' = current_location
            /\ last_lookup' = last_lookup]_vars

\* stop has returned after a cancellation that reached the task inside the
\* stationboard request of a refresh
C15_Witness ==
    /\ pc["main"] = "stopped"
    /\ pc["task"] = "cancelled"
    /\ exc = [step |-> "lookup", error |-> "CancelledError"]
    /\ station # None

\* stop has returned after a cancellation that reached the task in its sleep
C15_WitnessSleep ==
    /\ pc["main"] = "stopped"
    /\ exc = [step |-> "sleep", error |-> "CancelledError"]
    /\ last_lookup # None

\* the buffer is what the last lookup that returned has returned, or still
\* the empty list of the constructor
HoldsLastLookup ==
    \/ last_lookup = Some(buffer)
    \/ last_lookup = None /\ buffer = <<>>

\* C16: a coroutine cancelled at an await inside update_buffer (the provider
\* call, the locations request, the stationboard request) leaves the buffer
\* as it was when that update_buffer was entered; one cancelled in its sleep
\* or before it first ran leaves the whole result of the last lookup that
\* returned. The buffer is never anything else.
C16_CancelledCycleLeavesOldOrNew ==
    \A self \in Callers :
        pc[self] = "cancelled" =>
            IF exc.error = "CancelledError" /\ exc.step \in {"location", "lookup"}
            THEN buffer = before.buffer /\ HoldsLastLookup
            ELSE HoldsLastLookup

\* the task was cancelled in the stationboard request of a refresh that
\* started with departures in the buffer, and they are still there
C16_Witness ==
    /\ pc["task"] = "cancelled"
    /\ exc = [step |-> "lookup", error |-> "CancelledError"]
    /\ station # None
    /\ buffer # <<>>
    /\ buffer = before.buffer

\* C17, as stated: while any update_buffer is suspended in the provider call
\* or in a request of the lookup, a display update can take place without
\* waiting for it (the display is not being shut down).
C17_NoRefreshStallsDisplay ==
    (/\ \E self \in Callers : pc[self] \in NetworkAwaits
     /\ pc["main"] # "shutdown")
        => ENABLED DisplayUpdate

\* C17, amended: while an update_buffer of the task is suspended in the
\* provider call or in a request of the lookup, a display update can take
\* place without waiting for it, and reads the buffer as it is. The first
\* update_buffer is awaited by main itself before the display starts.
C17_TaskRefreshNeverStallsDisplay ==
    (/\ pc["task"] \in NetworkAwaits
     /\ pc["main"] # "shutdown")
        => ENABLED DisplayUpdate

\* the task resolved the location in its running update_buffer and is
\* suspended in the locations request; the display has shown the name of
\* that location since, and the buffer is the one from before the refresh
C17_Witness ==
    /\ pc["task"] = "find_station"
    /\ pc["main"] = "display"
    /\ located # None
    /\ before.current_location = None
    /\ shown # None
    /\ located[1].name = Some(shown[1].location_name)
    /\ buffer = before.buffer

\* a step of update_buffer: a caller leaves an await of update_buffer
UpdateBufferStep ==
    \E self \in Callers : pc[self] \in NetworkAwaits /\ pc'[self] # pc[self]

\* C18: a display update (get_location_name, then
\* get_displayable_connections) calls neither the provider nor the lookup
\* and leaves the buffer, content and order, and current_location as they
\* were; every step that changes one of the two is a step of update_buffer.
C18_DisplayOnlyReads ==
    [][/\ (shown' # shown =>
            /\ buffer' = buffer
            /\ current_location' = current_location
            /\ last_lookup' = last_lookup
            /\ \A self \in Callers :
                \/ pc'[self] = pc[self]
                \/ pc'[self] \in {"crashed", "cancelled"})
       /\ ((buffer' # buffer \/ current_location' # current_location)
            => UpdateBufferStep)]_vars

\* the display has been updated without an exception and the buffer holds
\* two departures the later of which comes first
C18_Witness ==
    /\ pc["main"] = "display"
    /\ shown # None
    /\ shown[1].exc = ""
    /\ Len(buffer) = 2
    /\ IsAware(buffer[1].departure_time) /\ IsAware(buffer[2].departure_time)
    /\ Instant(buffer[1].departure_time) > Instant(buffer[2].departure_time)
    /\ current_location # None

\* C19: the buffer a display update reads is the empty list of the
\* constructor or the whole result of one lookup that returned, the last
\* one; no interleaving of main and the task shows it anything else.
C19_DisplayReadsWholeResult ==
    display_loop_runs(pc) => HoldsLastLookup

\* the display runs while the task stands in the stationboard request, and
\* the buffer is the non-empty result of an earlier lookup
C19_Witness ==
    /\ display_loop_runs(pc)
    /\ pc["task"] = "fetch_stationboard"
    /\ shown # None
    /\ last_lookup # None
    /\ Len(last_lookup[1]) = MaxBoard
    /\ buffer = last_lookup[1]

\* C20: the update_buffer that main awaits in _initialize has ended, by its
\* return or its swallowed failure, before the task is created and before
\* the display is first updated: while it runs the task does not exist and
\* nothing has been shown.
C20_InitialRefreshComesFirst ==
    /\ (pc["main"] \in NetworkAwaits \cup {"update_buffer", "except", "updated", "start"}
            => pc["task"] = "not_started" /\ shown = None)
    /\ (pc["task"] # "not_started" \/ shown # None
            => pc["main"] \in {"display", "shutdown", "stopped", "crashed"})

\* the first update_buffer is suspended in the stationboard request
C20_Witness ==
    /\ pc["main"] = "fetch_stationboard"
    /\ pc["task"] = "not_started"
    /\ station # None
    /\ shown = None

\* a caller is about to enter update_buffer or is inside it
InRefresh(self) == pc[self] \in NetworkAwaits \cup {"update_buffer", "except", "updated"}

\* C21: at most one update_buffer is in flight at any time, so the Location
\* Provider never has two calls under way; and the task starts every
\* update_buffer but its first out of a sleep that has run to its end, a
\* sleep that began when its previous update_buffer had returned.
C21_OneRefreshAtATime ==
    /\ [](~(InRefresh("main") /\ InRefresh("task")))
    /\ [][/\ (pc'["task"] = "update_buffer" /\ pc["task"] # "update_buffer")
                => pc["task"] \in {"not_started", "sleep"}
          /\ (pc'["task"] = "sleep" /\ pc["task"] # "sleep")
                => pc["task"] \in {"except", "updated"}
          /\ (pc["task"] = "not_started" /\ pc'["task"] # "not_started")
                => pc["main"] = "start"]_vars

\* the task is in the locations request of an update_buffer that is not its
\* first: the display showed "Locating..." after the task was created, and
\* this update_buffer was entered with the location already resolved
C21_Witness ==
    /\ pc["task"] = "find_station"
    /\ pc["main"] = "display"
    /\ shown # None
    /\ shown[1].location_name = Locating
    /\ before.current_location # None
    /\ before.current_location[1].name # None
    /\ located = None

\* C22: the label the display gets is the name of current_location whenever
\* current_location is set, a name that is absent or empty included, and
\* "Locating..." only when current_location is unset.
C22_LabelIsNameWhenLocated ==
    shown # None =>
        IF shown[1].location = None
        THEN shown[1].location_name = Locating
        ELSE shown[1].location[1].name = Some(shown[1].location_name)

====
